---- MODULE Spec2Model ----
(***************************************************************************)
(* Model of client/src/services/Channels.ts (KonomiTV): the four static    *)
(* async methods of class Channels, the placeholder ILiveChannelDefault    *)
(* and the data shapes they exchange with the backend through APIClient.   *)
(*                                                                         *)
(* Every call of an async method is one entry of `calls`.  A call runs     *)
(* synchronously up to its single `await` (the request is handed to        *)
(* APIClient), is suspended until APIClient settles the promise, and then  *)
(* runs its continuation (the error branch or the return).  Calls may      *)
(* overlap; promises settle in any order.                                  *)
(*                                                                         *)
(* calls               the calls made so far, each with its arguments, its *)
(*                     position, the response it awaited and its result    *)
(* requests            the HTTP requests handed to APIClient, in order     *)
(* notifications       the notifications shown to the user, in order       *)
(* backendConforms     whether the backend keeps the closed set of types   *)
(* liveChannelDefault  the exported object ILiveChannelDefault             *)
(***************************************************************************)
EXTENDS Integers, Sequences, FiniteSets, TLC

VARIABLES calls, requests, notifications, backendConforms, liveChannelDefault

vars == <<calls, requests, notifications, backendConforms, liveChannelDefault>>

-----------------------------------------------------------------------------
(* Bounds of the exploration                                               *)

\* number of calls of the four methods issued in one behaviour
MaxCalls == 2

-----------------------------------------------------------------------------
(* Data shapes                                                             *)

\* JavaScript null (object-valued slots)
null == [null |-> TRUE]

\* type ChannelType = 'GR' | 'BS' | 'CS' | 'CATV' | 'SKY' | 'STARDIGIO'
ChannelTypeOrder == <<"GR", "BS", "CS", "CATV", "SKY", "STARDIGIO">>

ChannelType == {ChannelTypeOrder[i] : i \in 1..Len(ChannelTypeOrder)}

\* a channel id 'NID<network_id>-SID<service_id>' is kept as the tuple
\* <<"NID", network_id, "SID", service_id>> it is written from

\* import { IProgram, IProgramDefault } from '@/services/Programs':
\* the placeholder program, an object of type IProgram (never null)
IProgramDefault == [id |-> "NID0-SID0-EID0", channel_id |-> "NID0-SID0"]

\* ILiveChannelDefault with the program slots left null
ILiveChannelDefaultNullPrograms ==
    [ id                  |-> <<"NID", 0, "SID", 0>>,
      display_channel_id  |-> "gr000",
      network_id          |-> 0,
      service_id          |-> 0,
      transport_stream_id |-> null,
      remocon_id          |-> 0,
      channel_number      |-> "---",
      type                |-> "GR",
      name                |-> "loading",
      jikkyo_force        |-> null,
      is_subchannel       |-> FALSE,
      is_radiochannel     |-> FALSE,
      is_watchable        |-> TRUE,
      is_display          |-> TRUE,
      viewer_count        |-> 0,
      program_present     |-> null,
      program_following   |-> null ]

\* export const ILiveChannelDefault: ILiveChannel = { ... }
ILiveChannelDefault ==
    [ id                  |-> <<"NID", 0, "SID", 0>>,
      display_channel_id  |-> "gr000",
      network_id          |-> 0,
      service_id          |-> 0,
      transport_stream_id |-> null,
      remocon_id          |-> 0,
      channel_number      |-> "---",
      type                |-> "GR",
      name                |-> "loading",
      jikkyo_force        |-> null,
      is_subchannel       |-> FALSE,
      is_radiochannel     |-> FALSE,
      is_watchable        |-> TRUE,
      is_display          |-> TRUE,
      viewer_count        |-> 0,
      program_present     |-> IProgramDefault,
      program_following   |-> IProgramDefault ]

\* the fields of interface ILiveChannel (IChannel plus the live columns)
ILiveChannelFields ==
    { "id", "display_channel_id", "network_id", "service_id",
      "transport_stream_id", "remocon_id", "channel_number", "type", "name",
      "jikkyo_force", "is_subchannel", "is_radiochannel", "is_watchable",
      "is_display", "viewer_count", "program_present", "program_following" }

\* the fields of interface ILiveChannelsList
ILiveChannelsListFields == {"GR", "BS", "CS", "CATV", "SKY", "STARDIGIO"}

-----------------------------------------------------------------------------
(* The backend and the transport (APIClient), as the layer sees them       *)

\* the channels of the backend: network_id, service_id, display_channel_id
BackendChannels ==
    << [network_id |-> 32736, service_id |-> 1024, display_channel_id |-> "gr011"],
       [network_id |-> 4,     service_id |-> 101,  display_channel_id |-> "bs101"] >>

\* canonical id NID<network_id>-SID<service_id>
ChannelId(n) == <<"NID", BackendChannels[n].network_id, "SID", BackendChannels[n].service_id>>

\* a LiveChannel as the backend serialises it: channel n with type tag t
BackendLiveChannel(n, t) ==
    [ id                  |-> ChannelId(n),
      display_channel_id  |-> BackendChannels[n].display_channel_id,
      network_id          |-> BackendChannels[n].network_id,
      service_id          |-> BackendChannels[n].service_id,
      transport_stream_id |-> null,
      remocon_id          |-> n,
      channel_number      |-> "011",
      type                |-> t,
      name                |-> "channel",
      jikkyo_force        |-> null,
      is_subchannel       |-> FALSE,
      is_radiochannel     |-> FALSE,
      is_watchable        |-> TRUE,
      is_display          |-> TRUE,
      viewer_count        |-> n,
      program_present     |-> null,
      program_following   |-> null ]

BackendIndexes == DOMAIN BackendChannels

\* the buckets the backend populates; the other four stay empty
PopulatedTypes == {"GR", "BS"}

\* the tag the backend writes on a channel of bucket b: b itself, or, when the
\* backend breaks the closed set, the pseudo-type of pinned channels, which
\* exists only among the displayed labels (ChannelTypePretty)
TagOf(b, broken) == IF broken THEN "pinned" ELSE b

\* all orderings of the backend's channels
Orderings ==
    { s \in [BackendIndexes -> BackendIndexes] :
        \A i, j \in BackendIndexes : i # j => s[i] # s[j] }

\* the directory of a backend that puts channel n into bucket place[n]
\* ("none": not listed), lists each bucket in the order ord and tags the
\* channels of `broken` outside the closed set
BackendDirectory(place, ord, broken) ==
    [ b \in ILiveChannelsListFields |->
        LET InB(n) == place[n] = b
            sel    == SelectSeq(ord, InB)
        IN  [ i \in 1..Len(sel) |-> BackendLiveChannel(sel[i], TagOf(b, sel[i] \in broken)) ] ]

BrokenSets(conforms) == IF conforms THEN {{}} ELSE SUBSET BackendIndexes

\* payloads of GET /channels
DirectoryPayloads(conforms) ==
    { BackendDirectory(place, ord, broken) :
        place \in [BackendIndexes -> PopulatedTypes \cup {"none"}],
        ord \in Orderings,
        broken \in BrokenSets(conforms) }

\* payloads of GET /channels/{channel_id}
ChannelPayloads(conforms) ==
    { BackendLiveChannel(n, TagOf(b, broken)) :
        n \in BackendIndexes, b \in PopulatedTypes,
        broken \in (IF conforms THEN {FALSE} ELSE BOOLEAN) }

\* a WebSocket URL, kept as its scheme, host and path
WebSocketUrls ==
    { [scheme |-> "wss", host |-> "nx-jikkyo.tsukumijima.net",
       path |-> "/api/v1/channels/jk1/ws/watch"] }

\* payloads of GET /channels/{channel_id}/jikkyo (interface IJikkyoWebSocketInfo)
JikkyoPayloads ==
    [ websocket_url : WebSocketUrls \cup {null}, is_nxjikkyo_exclusive : BOOLEAN ]

\* payloads of POST /channels/{channel_id}/jikkyo/comment (interface IJikkyoSendCommentResult)
CommentPayloads ==
    [ is_success : BOOLEAN, detail : {"posted", "rate limited"} ]

\* the error envelopes of APIClient: no response at all, or a non-2xx status
ErrorResponses ==
    { [type |-> "error", status |-> 0,   data |-> null],
      [type |-> "error", status |-> 500, data |-> null] }

SuccessResponse(payload) == [type |-> "success", status |-> 200, data |-> payload]

\* what the promise of APIClient.get / APIClient.post can settle with, per method
Responses(op, conforms) ==
    ErrorResponses \cup
    { SuccessResponse(p) :
        p \in CASE op = "fetchAll"                 -> DirectoryPayloads(conforms)
                [] op = "fetch"                    -> ChannelPayloads(conforms)
                [] op = "fetchJikkyoWebSocketInfo" -> JikkyoPayloads
                [] op = "sendJikkyoComment"        -> CommentPayloads }

\* the promise has not settled yet
Pending == [type |-> "pending", status |-> 0, data |-> null]

\* the caller has not got anything back yet
Running == [running |-> TRUE]

\* arguments the callers pass: channel_id is an id or a display_channel_id
ChannelIdArgs == {"NID32736-SID1024", "gr011"}

\* interface IJikkyoSendCommentRequest
Comments ==
    { [text |-> "w", color |-> "white", position |-> "naka", size |-> "medium", vpos |-> 1200] }

-----------------------------------------------------------------------------
(* APIClient and the notification surface                                  *)

\* messages handed to APIClient.showGenericError (Japanese in the source)
MsgChannels == "could not get the channel information"
MsgJikkyoInfo == "could not get the information of the comment WebSocket API"
MsgSendComment == "failed to send the comment to niconico jikkyo"

\* APIClient.get(path) / APIClient.post(path, body): one HTTP request leaves
\* for the backend on behalf of call c
APIClientRequest(c, method, path, body) ==
    Append(requests, [call |-> c, method |-> method, path |-> path, body |-> body])

\* APIClient.showGenericError(response, message): one notification is shown
showGenericError(c, response, message) ==
    Append(notifications, [call |-> c, message |-> message, status |-> response.status])

\* a call of method op enters the event loop and is suspended at its await
NewCall(op, channel_id, comment) ==
    [ op |-> op, channel_id |-> channel_id, comment |-> comment,
      pc |-> "await", response |-> Pending, result |-> Running, outcome |-> "running" ]

\* the promise a call awaits settles: with an error envelope or a success payload
APIClientSettle(c) ==
    /\ c \in DOMAIN calls
    /\ calls[c].pc = "await"
    /\ calls[c].response = Pending
    /\ \E r \in Responses(calls[c].op, backendConforms) :
          calls' = [calls EXCEPT ![c].response = r, ![c].pc = "resume"]
    /\ UNCHANGED <<requests, notifications, backendConforms, liveChannelDefault>>

\* the response kept in one slot shared by all calls: every call reads the
\* response of the first call
ResponseOfSharedSlot(c) == calls[1].response

\* `const response = await ...`: the local variable of call c
ResponseOf(c) == calls[c].response

\* `return v` of the async method: the promise of call c resolves with v
Return(c, v) ==
    [calls EXCEPT ![c].result = v, ![c].outcome = "returned", ![c].pc = "done"]

-----------------------------------------------------------------------------
(* class Channels                                                          *)

\* static async fetchAll(), up to the await
fetchAll ==
    /\ Len(calls) < MaxCalls
    /\ calls' = Append(calls, NewCall("fetchAll", null, null))
    /\ requests' = APIClientRequest(Len(calls) + 1, "GET", <<"channels">>, null)
    /\ UNCHANGED <<notifications, backendConforms, liveChannelDefault>>

\* fetchAll() that also lists every BS channel under GR
fetchAllResumeMerging(c) ==
    /\ c \in DOMAIN calls
    /\ calls[c].op = "fetchAll"
    /\ calls[c].pc = "resume"
    /\ LET response == ResponseOf(c)
       IN  IF response.type = "error"
           THEN /\ notifications' = showGenericError(c, response, MsgChannels)
                /\ calls' = Return(c, null)
           ELSE /\ notifications' = notifications
                /\ calls' = Return(c, [response.data EXCEPT
                                         !.GR = response.data.GR \o response.data.BS])
    /\ UNCHANGED <<requests, backendConforms, liveChannelDefault>>

\* the reverse of a sequence
Reverse(s) == [i \in 1..Len(s) |-> s[Len(s) + 1 - i]]

\* fetchAll() that hands every bucket back in reverse order
fetchAllResumeReversing(c) ==
    /\ c \in DOMAIN calls
    /\ calls[c].op = "fetchAll"
    /\ calls[c].pc = "resume"
    /\ LET response == ResponseOf(c)
       IN  IF response.type = "error"
           THEN /\ notifications' = showGenericError(c, response, MsgChannels)
                /\ calls' = Return(c, null)
           ELSE /\ notifications' = notifications
                /\ calls' = Return(c, [b \in DOMAIN response.data |->
                                         Reverse(response.data[b])])
    /\ UNCHANGED <<requests, backendConforms, liveChannelDefault>>

\* fetchAll() that returns null on an error without notifying
fetchAllResumeSilent(c) ==
    /\ c \in DOMAIN calls
    /\ calls[c].op = "fetchAll"
    /\ calls[c].pc = "resume"
    /\ LET response == ResponseOf(c)
       IN  IF response.type = "error"
           THEN /\ notifications' = notifications
                /\ calls' = Return(c, null)
           ELSE /\ notifications' = notifications
                /\ calls' = Return(c, response.data)
    /\ UNCHANGED <<requests, backendConforms, liveChannelDefault>>

\* fetchAll(), after the await
fetchAllResume(c) ==
    /\ c \in DOMAIN calls
    /\ calls[c].op = "fetchAll"
    /\ calls[c].pc = "resume"
    /\ LET response == ResponseOf(c)
       IN  IF response.type = "error"
           THEN /\ notifications' = showGenericError(c, response, MsgChannels)
                /\ calls' = Return(c, null)
           ELSE /\ notifications' = notifications
                /\ calls' = Return(c, response.data)
    /\ UNCHANGED <<requests, backendConforms, liveChannelDefault>>

\* static async fetch(channel_id), up to the await
fetch(channel_id) ==
    /\ Len(calls) < MaxCalls
    /\ calls' = Append(calls, NewCall("fetch", channel_id, null))
    /\ requests' = APIClientRequest(Len(calls) + 1, "GET", <<"channels", channel_id>>, null)
    /\ UNCHANGED <<notifications, backendConforms, liveChannelDefault>>

\* fetch(channel_id) that notifies whatever the response is
fetchResumeAlwaysNotifying(c) ==
    /\ c \in DOMAIN calls
    /\ calls[c].op = "fetch"
    /\ calls[c].pc = "resume"
    /\ LET response == ResponseOf(c)
       IN  /\ notifications' = showGenericError(c, response, MsgChannels)
           /\ calls' = Return(c, IF response.type = "error" THEN null ELSE response.data)
    /\ UNCHANGED <<requests, backendConforms, liveChannelDefault>>

\* fetch(channel_id), after the await
fetchResume(c) ==
    /\ c \in DOMAIN calls
    /\ calls[c].op = "fetch"
    /\ calls[c].pc = "resume"
    /\ LET response == ResponseOf(c)
       IN  IF response.type = "error"
           THEN /\ notifications' = showGenericError(c, response, MsgChannels)
                /\ calls' = Return(c, null)
           ELSE /\ notifications' = notifications
                /\ calls' = Return(c, response.data)
    /\ UNCHANGED <<requests, backendConforms, liveChannelDefault>>

\* static async fetchJikkyoWebSocketInfo(channel_id), up to the await
fetchJikkyoWebSocketInfo(channel_id) ==
    /\ Len(calls) < MaxCalls
    /\ calls' = Append(calls, NewCall("fetchJikkyoWebSocketInfo", channel_id, null))
    /\ requests' = APIClientRequest(Len(calls) + 1, "GET",
                                    <<"channels", channel_id, "jikkyo">>, null)
    /\ UNCHANGED <<notifications, backendConforms, liveChannelDefault>>

\* fetchJikkyoWebSocketInfo(channel_id) that takes a null websocket_url for a failure
fetchJikkyoWebSocketInfoResumeNullUrlFails(c) ==
    /\ c \in DOMAIN calls
    /\ calls[c].op = "fetchJikkyoWebSocketInfo"
    /\ calls[c].pc = "resume"
    /\ LET response == ResponseOf(c)
       IN  IF response.type = "error" \/ response.data.websocket_url = null
           THEN /\ notifications' = showGenericError(c, response, MsgJikkyoInfo)
                /\ calls' = Return(c, null)
           ELSE /\ notifications' = notifications
                /\ calls' = Return(c, response.data)
    /\ UNCHANGED <<requests, backendConforms, liveChannelDefault>>

\* fetchJikkyoWebSocketInfo(channel_id), after the await
fetchJikkyoWebSocketInfoResume(c) ==
    /\ c \in DOMAIN calls
    /\ calls[c].op = "fetchJikkyoWebSocketInfo"
    /\ calls[c].pc = "resume"
    /\ LET response == ResponseOf(c)
       IN  IF response.type = "error"
           THEN /\ notifications' = showGenericError(c, response, MsgJikkyoInfo)
                /\ calls' = Return(c, null)
           ELSE /\ notifications' = notifications
                /\ calls' = Return(c, response.data)
    /\ UNCHANGED <<requests, backendConforms, liveChannelDefault>>

\* static async sendJikkyoComment(channel_id, comment), up to the await
sendJikkyoComment(channel_id, comment) ==
    /\ Len(calls) < MaxCalls
    /\ calls' = Append(calls, NewCall("sendJikkyoComment", channel_id, comment))
    /\ requests' = APIClientRequest(Len(calls) + 1, "POST",
                                    <<"channels", channel_id, "jikkyo", "comment">>, comment)
    /\ UNCHANGED <<notifications, backendConforms, liveChannelDefault>>

\* sendJikkyoComment(channel_id, comment) that takes is_success = false for a failure
sendJikkyoCommentResumeRejectionFails(c) ==
    /\ c \in DOMAIN calls
    /\ calls[c].op = "sendJikkyoComment"
    /\ calls[c].pc = "resume"
    /\ LET response == ResponseOf(c)
       IN  IF response.type = "error" \/ ~response.data.is_success
           THEN /\ notifications' = showGenericError(c, response, MsgSendComment)
                /\ calls' = Return(c, null)
           ELSE /\ notifications' = notifications
                /\ calls' = Return(c, response.data)
    /\ UNCHANGED <<requests, backendConforms, liveChannelDefault>>

\* sendJikkyoComment(channel_id, comment) that posts the comment again after an error
sendJikkyoCommentResumeRetrying(c) ==
    /\ c \in DOMAIN calls
    /\ calls[c].op = "sendJikkyoComment"
    /\ calls[c].pc = "resume"
    /\ LET response == ResponseOf(c)
           posts    == SelectSeq(requests, LAMBDA r : r.call = c)
       IN  IF response.type = "error" /\ Len(posts) < 2
           THEN /\ requests' = APIClientRequest(c, "POST",
                                   <<"channels", calls[c].channel_id, "jikkyo", "comment">>,
                                   calls[c].comment)
                /\ calls' = [calls EXCEPT ![c].response = Pending, ![c].pc = "await"]
                /\ notifications' = notifications
           ELSE IF response.type = "error"
           THEN /\ notifications' = showGenericError(c, response, MsgSendComment)
                /\ calls' = Return(c, null)
                /\ requests' = requests
           ELSE /\ notifications' = notifications
                /\ calls' = Return(c, response.data)
                /\ requests' = requests
    /\ UNCHANGED <<backendConforms, liveChannelDefault>>

\* sendJikkyoComment(channel_id, comment), after the await
sendJikkyoCommentResume(c) ==
    /\ c \in DOMAIN calls
    /\ calls[c].op = "sendJikkyoComment"
    /\ calls[c].pc = "resume"
    /\ LET response == ResponseOf(c)
       IN  IF response.type = "error"
           THEN /\ notifications' = showGenericError(c, response, MsgSendComment)
                /\ calls' = Return(c, null)
           ELSE /\ notifications' = notifications
                /\ calls' = Return(c, response.data)
    /\ UNCHANGED <<requests, backendConforms, liveChannelDefault>>

-----------------------------------------------------------------------------
(* Specifications                                                          *)

\* the module has been evaluated (its exported constant holds the literal)
\* and no call has been made yet
InitCalls ==
    /\ calls = <<>>
    /\ requests = <<>>
    /\ notifications = <<>>
    /\ liveChannelDefault = ILiveChannelDefault

\* the backend keeps the closed set of channel types
Init ==
    /\ InitCalls
    /\ backendConforms = TRUE

\* the backend may or may not keep the closed set of channel types
InitAnyBackend ==
    /\ InitCalls
    /\ backendConforms \in BOOLEAN

Next ==
    \/ fetchAll
    \/ \E channel_id \in ChannelIdArgs : fetch(channel_id)
    \/ \E channel_id \in ChannelIdArgs : fetchJikkyoWebSocketInfo(channel_id)
    \/ \E channel_id \in ChannelIdArgs, comment \in Comments :
          sendJikkyoComment(channel_id, comment)
    \/ \E c \in 1..MaxCalls : APIClientSettle(c)
    \/ \E c \in 1..MaxCalls : fetchAllResume(c)
    \/ \E c \in 1..MaxCalls : fetchResume(c)
    \/ \E c \in 1..MaxCalls : fetchJikkyoWebSocketInfoResume(c)
    \/ \E c \in 1..MaxCalls : sendJikkyoCommentResume(c)

Spec == Init /\ [][Next]_vars

SpecAnyBackend == InitAnyBackend /\ [][Next]_vars

-----------------------------------------------------------------------------
(* Vocabulary of the properties                                            *)

Done(c) == calls[c].pc = "done"

Failed(c) == calls[c].response.type = "error"

Succeeded(c) == calls[c].response.type = "success"

\* the notifications emitted on behalf of call c
NotificationsOf(c) == Len(SelectSeq(notifications, LAMBDA n : n.call = c))

\* the requests issued on behalf of call c
RequestsOf(c) == SelectSeq(requests, LAMBDA r : r.call = c)

\* no id twice across the buckets, every channel in the bucket of its type
Partitioned(dir) ==
    /\ DOMAIN dir = ChannelType
    /\ \A b \in DOMAIN dir : \A i \in 1..Len(dir[b]) : dir[b][i].type = b
    /\ \A b1, b2 \in DOMAIN dir :
          \A i \in 1..Len(dir[b1]) : \A j \in 1..Len(dir[b2]) :
              dir[b1][i].id = dir[b2][j].id => (b1 = b2 /\ i = j)

\* the channels a payload of fetchAll or fetch carries
ChannelsOf(op, payload) ==
    IF op = "fetchAll"
    THEN UNION { {payload[b][i] : i \in 1..Len(payload[b])} : b \in DOMAIN payload }
    ELSE {payload}

-----------------------------------------------------------------------------
(* Properties                                                              *)

\* C1: for each of the four methods, a call whose request ended in an error
\* envelope has completed with null, exactly one notification was emitted
\* for it, and it returned (no exception reached the caller).
C1_FailureGivesNullAndOneNotification ==
    \A c \in DOMAIN calls :
        (Done(c) /\ Failed(c)) =>
            /\ calls[c].result = null
            /\ NotificationsOf(c) = 1
            /\ calls[c].outcome = "returned"

\* two failed calls of different methods have completed, one of them fetchAll
C1_Witness ==
    /\ Len(calls) = 2
    /\ calls[1].op = "fetchAll" /\ Done(1) /\ Failed(1)
    /\ calls[2].op = "sendJikkyoComment" /\ Done(2) /\ Failed(2)
    /\ Len(notifications) = 2

\* C2: a call that round-tripped successfully has emitted no notification,
\* and the number of notifications emitted so far equals the number of
\* completed failed calls.
C2_NotificationsCountFailures ==
    /\ \A c \in DOMAIN calls : (Done(c) /\ Succeeded(c)) => NotificationsOf(c) = 0
    /\ Len(notifications) = Cardinality({c \in DOMAIN calls : Done(c) /\ Failed(c)})

\* a successful fetch and a failed fetchAll have completed: one notification
C2_Witness ==
    /\ Len(calls) = 2
    /\ calls[1].op = "fetch" /\ Done(1) /\ Succeeded(1)
    /\ calls[2].op = "fetchAll" /\ Done(2) /\ Failed(2)
    /\ Len(notifications) = 1

\* C3: a fetchJikkyoWebSocketInfo call that succeeded with websocket_url =
\* null returns a non-null info whose websocket_url is null and emits no
\* notification; its outcome differs from the one of every failed call of
\* the method, which is null plus one notification.
C3_NullUrlIsNotFailure ==
    \A c \in DOMAIN calls :
        ( /\ calls[c].op = "fetchJikkyoWebSocketInfo"
          /\ Done(c) /\ Succeeded(c)
          /\ calls[c].response.data.websocket_url = null ) =>
            /\ calls[c].result # null
            /\ calls[c].result.websocket_url = null
            /\ calls[c].result.is_nxjikkyo_exclusive
                  = calls[c].response.data.is_nxjikkyo_exclusive
            /\ NotificationsOf(c) = 0
            /\ \A d \in DOMAIN calls :
                  (calls[d].op = "fetchJikkyoWebSocketInfo" /\ Done(d) /\ Failed(d)) =>
                      /\ calls[d].result = null
                      /\ calls[d].result # calls[c].result
                      /\ NotificationsOf(d) = 1

\* one locate call succeeded with a null websocket_url, another one failed
C3_Witness ==
    /\ Len(calls) = 2
    /\ calls[1].op = "fetchJikkyoWebSocketInfo" /\ Done(1) /\ Succeeded(1)
    /\ calls[1].response.data.websocket_url = null
    /\ calls[2].op = "fetchJikkyoWebSocketInfo" /\ Done(2) /\ Failed(2)

\* C4: a sendJikkyoComment call that round-tripped with is_success = false
\* and detail d returns exactly that result (is_success = false, detail = d),
\* not null, and emits no notification.
C4_RejectionIsAResult ==
    \A c \in DOMAIN calls :
        ( /\ calls[c].op = "sendJikkyoComment"
          /\ Done(c) /\ Succeeded(c)
          /\ ~calls[c].response.data.is_success ) =>
            /\ calls[c].result # null
            /\ calls[c].result = calls[c].response.data
            /\ calls[c].result.is_success = FALSE
            /\ calls[c].result.detail = calls[c].response.data.detail
            /\ NotificationsOf(c) = 0

\* a comment was rejected by the server as rate limited and the call is over
C4_Witness ==
    \E c \in DOMAIN calls :
        /\ calls[c].op = "sendJikkyoComment" /\ Done(c)
        /\ calls[c].response = SuccessResponse([is_success |-> FALSE, detail |-> "rate limited"])
        /\ calls[c].result.detail = "rate limited"

\* C5: every sendJikkyoComment call has issued exactly one request, a POST
\* to the comment endpoint of its channel carrying its comment, whether its
\* response is still awaited, was an error or a success.
C5_AtMostOnePost ==
    \A c \in DOMAIN calls :
        calls[c].op = "sendJikkyoComment" =>
            /\ Len(RequestsOf(c)) = 1
            /\ RequestsOf(c)[1].method = "POST"
            /\ RequestsOf(c)[1].path = <<"channels", calls[c].channel_id, "jikkyo", "comment">>
            /\ RequestsOf(c)[1].body = calls[c].comment

\* a sendJikkyoComment call failed and is over
C5_Witness ==
    \E c \in DOMAIN calls :
        /\ calls[c].op = "sendJikkyoComment" /\ Done(c) /\ Failed(c)
        /\ Len(RequestsOf(c)) = 1

C8_UnknownTypeRejected ==
    \A c \in DOMAIN calls :
        (calls[c].op \in {"fetchAll", "fetch"} /\ Done(c) /\ Succeeded(c)) =>
            /\ (\E ch \in ChannelsOf(calls[c].op, calls[c].response.data) :
                    ch.type \notin ChannelType) => calls[c].outcome = "threw"
            /\ calls[c].outcome = "returned" =>
                  \A ch \in ChannelsOf(calls[c].op, calls[c].result) : ch.type \in ChannelType

\* C9: a successful fetchAll returns the directory as sent: the same six
\* buckets, each the same sequence of channels in the same order.
C9_DirectoryUnchanged ==
    \A c \in DOMAIN calls :
        (calls[c].op = "fetchAll" /\ Done(c) /\ Succeeded(c)) =>
            /\ DOMAIN calls[c].result = ILiveChannelsListFields
            /\ \A b \in ILiveChannelsListFields :
                  /\ Len(calls[c].result[b]) = Len(calls[c].response.data[b])
                  /\ \A i \in 1..Len(calls[c].result[b]) :
                        calls[c].result[b][i] = calls[c].response.data[b][i]

\* a directory whose GR bucket holds two channels was returned
C9_Witness ==
    \E c \in DOMAIN calls :
        /\ calls[c].op = "fetchAll" /\ Done(c) /\ Succeeded(c)
        /\ Len(calls[c].response.data.GR) = 2
        /\ calls[c].result.GR[1].id # calls[c].result.GR[2].id

\* C10: whatever calls overlap and in whatever order their responses
\* arrive, the result and the notifications of every completed call are
\* those of its own response: null and one notification naming its own
\* method after an error, the payload and no notification after a success.
C10_CallsIndependent ==
    \A c \in DOMAIN calls :
        Done(c) =>
            /\ calls[c].response # Pending
            /\ Failed(c) =>
                  /\ calls[c].result = null
                  /\ \E k \in DOMAIN notifications :
                        /\ notifications[k].call = c
                        /\ notifications[k].status = calls[c].response.status
                        /\ \A m \in DOMAIN notifications :
                              notifications[m].call = c => m = k
            /\ Succeeded(c) =>
                  /\ calls[c].result = calls[c].response.data
                  /\ \A k \in DOMAIN notifications : notifications[k].call # c

\* two calls for the same channel overlapped and got different error
\* envelopes; the later call completed first
C10_Witness ==
    /\ Len(calls) = 2
    /\ calls[1].op = "fetchJikkyoWebSocketInfo"
    /\ calls[2].op = "fetchJikkyoWebSocketInfo"
    /\ calls[1].channel_id = calls[2].channel_id
    /\ Done(1) /\ Failed(1)
    /\ Done(2) /\ Failed(2)
    /\ calls[1].response # calls[2].response
    /\ Len(notifications) = 2
    /\ notifications[1].call = 2

====
